---------------------------- MODULE Spec2Model ----------------------------
(***************************************************************************)
(* A model of nick_gen.py, the nickname generator.                         *)
(*                                                                         *)
(* Characters are Unicode code points (ord), a str is a sequence of code   *)
(* points, so 'a' is 97, 'A' is 65, '-' is 45, '.' is 46, '1' is 49, ' '   *)
(* is 32 and the dotless i is 305.  An optional value (argparse's          *)
(* default=None) is the empty sequence for None and <<x>> for a value x.   *)
(* A float given to --l33t is an exact fraction <<p, q>> with q > 0; the   *)
(* model only enumerates dyadic fractions, which a float holds exactly.    *)
(***************************************************************************)
EXTENDS Integers, Sequences, FiniteSets, TLC

VARIABLES
    pc,        \* where main() stands: "start", "select", "print", "input",
               \* "done", "usage_error", "missing_file", "crashed";
               \* "l33t" and "l33t_done" for a bare call of word2l33t
    args,      \* the argparse namespace of sys.argv
    files,     \* the four word lists beside the program
    rng,       \* the process-wide pseudorandom generator
    words1,    \* get_duos: the filtered first source
    words2,    \* get_duos: the filtered second source
    words,     \* main: the value bound to words (None or a set)
    todo,      \* main: the elements the for loop has not yet yielded
    printed,   \* what print() has written, one entry per word
    sorry,     \* how often the 'no words were found' message was printed
    pauses,    \* the values of i after which input() returned a line
    opened,    \* the file names get_handle was called with, in order
    leet,      \* the last call of word2l33t
    err,       \* the error that ended the process, "" if none
    run,       \* which invocation of the program this is (1 or 2)
    prev       \* what the previous invocation printed

vars == <<pc, args, files, rng, words1, words2, words, todo, printed, sorry,
          pauses, opened, leet, err, run, prev>>

(***************************************************************************)
(* Bounds of the model.                                                    *)
(***************************************************************************)
MaxLines == 7      \* lines of the longest word list
MaxWordLen == 3    \* longest word handed to a bare call of word2l33t

(***************************************************************************)
(* Python values.                                                          *)
(***************************************************************************)
None == <<>>
Some(x) == <<x>>

\* bool(x) of an Optional[int]: None and 0 are false.
TruthyInt(o) == o # None /\ o[1] # 0

\* bool(x) of an Optional[str]: None and '' are false.
TruthyStr(o) == o # None /\ o[1] # <<>>

\* bool(x) of a float p/q.
TruthyRatio(r) == r[1] # 0

Range(s) == {s[i] : i \in DOMAIN s}

\* All orders in which a finite set can be laid out.
Perms(S) == {t \in [1..Cardinality(S) -> S] : Range(t) = S}

\* str.isspace() on the code points of ASCII and Latin-1.
IsSpace(c) == c \in {9, 10, 11, 12, 13, 28, 29, 30, 31, 32, 133, 160}

IsAsciiUpper(c) == c >= 65 /\ c <= 90
IsAsciiLower(c) == c >= 97 /\ c <= 122
IsAsciiDigit(c) == c >= 48 /\ c <= 57

\* str.lower() of one character: within ASCII and for the dotless i (305),
\* the long s (383) and the code points below 128 this is one code point.
LowerChar(c) == IF IsAsciiUpper(c) THEN c + 32 ELSE c

\* str.upper() of one character: the dotless i becomes 'I' and the long s
\* becomes 'S'; every other code point the model uses outside a-z is fixed.
UpperChar(c) ==
    IF IsAsciiLower(c) THEN c - 32
    ELSE IF c = 305 THEN 73
    ELSE IF c = 383 THEN 83
    ELSE c

Lower(s) == [i \in DOMAIN s |-> LowerChar(s[i])]

\* str.rstrip(): drop the trailing whitespace.
RECURSIVE RStrip(_)
RStrip(s) ==
    IF s # <<>> /\ IsSpace(s[Len(s)]) THEN RStrip(SubSeq(s, 1, Len(s) - 1))
    ELSE s

\* str(n) of an integer, as decimal digits with a leading '-' below zero.
RECURSIVE Digits(_)
Digits(n) ==
    IF n < 10 THEN <<48 + n>> ELSE Append(Digits(n \div 10), 48 + (n % 10))

Str(n) == IF n < 0 THEN <<45>> \o Digits(-n) ELSE Digits(n)

RECURSIVE SumSeq(_)
SumSeq(s) == IF s = <<>> THEN 0 ELSE s[1] + SumSeq(Tail(s))

\* ''.join(parts)
RECURSIVE JoinFrom(_, _)
JoinFrom(parts, i) ==
    IF i > Len(parts) THEN <<>> ELSE parts[i] \o JoinFrom(parts, i + 1)

Join(parts) == JoinFrom(parts, 1)

\* int(n / d) for d > 0: the quotient truncated toward zero.
IntTrunc(n, d) == IF n >= 0 THEN n \div d ELSE -((-n) \div d)

\* round(n * p / q) as Python rounds a float: to the nearest integer, a tie
\* to the even one.
Round(n, r) ==
    LET x == n * r[1]
        f == x \div r[2]
        m == x % r[2]
    IN  IF 2 * m < r[2] THEN f
        ELSE IF 2 * m > r[2] THEN f + 1
        ELSE IF f % 2 = 0 THEN f ELSE f + 1

(***************************************************************************)
(* g_l33t: the substitution table, 'A'..'Z' to its glyph.                  *)
(***************************************************************************)
g_l33t ==
    65 :> <<52>> @@ 66 :> <<124, 51>> @@ 67 :> <<40>> @@ 68 :> <<124, 41>> @@
    69 :> <<51>> @@ 70 :> <<124, 61>> @@ 71 :> <<40, 45>> @@
    72 :> <<124, 45, 124>> @@ 73 :> <<33>> @@ 74 :> <<95, 124>> @@
    75 :> <<124, 60>> @@ 76 :> <<49>> @@ 77 :> <<124, 118, 124>> @@
    78 :> <<126>> @@ 79 :> <<48>> @@ 80 :> <<124, 42>> @@ 81 :> <<48, 95>> @@
    82 :> <<124, 50>> @@ 83 :> <<53>> @@ 84 :> <<43>> @@
    85 :> <<124, 95, 124>> @@ 86 :> <<124, 47>> @@ 87 :> <<39, 47, 47>> @@
    88 :> <<62, 60>> @@ 89 :> <<39, 47>> @@ 90 :> <<50>>

(***************************************************************************)
(* The pseudorandom generator.  A seed fixes the whole stream of draws, so *)
(* the generator is its stream as far as the program has consumed it: log  *)
(* holds the draws already made (randbelow(n) gave v) and pos how many of  *)
(* them this invocation has taken.  A draw past the end of the log is any  *)
(* value below n; a draw inside the log, asked with the same n, repeats    *)
(* the logged value.                                                       *)
(***************************************************************************)
NewRng == [log |-> <<>>, pos |-> 0]

\* random.seed(a): None seeds from the system's entropy (a fresh stream),
\* an integer restarts the stream that integer determines.
RandomSeed(g, seed) == IF seed = None THEN NewRng ELSE [g EXCEPT !.pos = 0]

\* The generator after randbelow(n) returned v.
Advance(g, n, v) ==
    [log |-> IF g.pos < Len(g.log)
             THEN [g.log EXCEPT ![g.pos + 1] = [n |-> n, v |-> v]]
             ELSE Append(g.log, [n |-> n, v |-> v]),
     pos |-> g.pos + 1]

\* The values randbelow(n) can return in generator state g.
RandBelow(g, n) ==
    IF g.pos < Len(g.log) /\ g.log[g.pos + 1].n = n
    THEN {g.log[g.pos + 1].v}
    ELSE 0..(n - 1)

\* The results of the successive calls randbelow(ns[1]), randbelow(ns[2]), ...
RECURSIVE RandBelowSeqs(_, _)
RandBelowSeqs(g, ns) ==
    IF ns = <<>> THEN {<<>>}
    ELSE UNION {{<<v>> \o rest :
                    rest \in RandBelowSeqs(Advance(g, ns[1], v), Tail(ns))} :
                v \in RandBelow(g, ns[1])}

RECURSIVE AdvanceAll(_, _, _)
AdvanceAll(g, ns, vs) ==
    IF ns = <<>> THEN g
    ELSE AdvanceAll(Advance(g, ns[1], vs[1]), Tail(ns), Tail(vs))

\* random.sample(range(n), k) out of the draws vs: the i-th draw picks a
\* slot of the pool of indexes not yet taken, whose last free index then
\* moves into that slot.  Indexes are 1-based here.
RECURSIVE SamplePool(_, _, _)
SamplePool(pool, left, vs) ==
    IF vs = <<>> THEN <<>>
    ELSE <<pool[vs[1] + 1]>>
         \o SamplePool([pool EXCEPT ![vs[1] + 1] = pool[left]], left - 1,
                       Tail(vs))

Sample(n, vs) == SamplePool([i \in 1..n |-> i], n, vs)

\* The sizes random.sample(range(n), k) asks randbelow for.
SampleSizes(n, k) == [i \in 1..k |-> n - i + 1]

(***************************************************************************)
(* get_args: the checks after parse_args, in their order.  The result is   *)
(* the parser.error raised ("" when the namespace is returned).            *)
(***************************************************************************)
NumRejected(a) == TruthyInt(a.num) /\ a.num[1] < 97

GetArgsError(a) ==
    IF NumRejected(a) THEN "num"
    ELSE IF a.min < 1 THEN "min"
    ELSE IF a.max < a.min THEN "max"
    ELSE IF ~(0 <= a.l33t[1] /\ a.l33t[1] <= a.l33t[2]) THEN "l33t"
    ELSE ""

(***************************************************************************)
(* word2num: the decimal string of the sum of the code points of the       *)
(* word's characters that re.sub('[^A-Za-z0-9]', '', word) keeps.          *)
(***************************************************************************)
IsAsciiAlnum(c) == IsAsciiUpper(c) \/ IsAsciiLower(c) \/ IsAsciiDigit(c)

word2num(word) == Str(SumSeq(SelectSeq(word, IsAsciiAlnum)))

\* str(weight_sum) of an Optional[int]; str(None) is 'None'.
StrOpt(o) == IF o = None THEN <<78, 111, 110, 101>> ELSE Str(o[1])

(***************************************************************************)
(* re.match(pattern, word) for the patterns the model passes as --first:   *)
(* every character stands for itself except '.', which stands for any     *)
(* character but a newline.  The match is anchored at the start only.      *)
(***************************************************************************)
ReMatch(pattern, word) ==
    /\ Len(pattern) <= Len(word)
    /\ \A i \in DOMAIN pattern :
          IF pattern[i] = 46 THEN word[i] # 10 ELSE word[i] = pattern[i]

(***************************************************************************)
(* get_words: the body of the loop over the lines of the file, and the     *)
(* loop.                                                                   *)
(***************************************************************************)
CleanWord(line) == Lower(RStrip(line))

KeepWord(clean_word, weight_sum, a) ==
    IF TruthyStr(a.first) /\ ~ReMatch(Lower(a.first[1]), clean_word)
    THEN FALSE
    ELSE IF TruthyInt(a.num)
         THEN word2num(clean_word) = StrOpt(weight_sum)
         ELSE a.min <= Len(clean_word) /\ Len(clean_word) <= a.max

RECURSIVE GetWordsLoop(_, _, _, _)
GetWordsLoop(lines, acc, weight_sum, a) ==
    IF lines = <<>> THEN acc
    ELSE LET clean_word == CleanWord(lines[1])
         IN  GetWordsLoop(Tail(lines),
                          IF KeepWord(clean_word, weight_sum, a)
                          THEN acc \cup {clean_word} ELSE acc,
                          weight_sum, a)

GetWords(lines, weight_sum, a) == GetWordsLoop(lines, {}, weight_sum, a)

(***************************************************************************)
(* get_duos: the two weights, and the set built from the choices.  t1 is   *)
(* tuple(words1), t2 the order in which the generator expression walks     *)
(* words2, vs[j] what randbelow returned for the j-th word of t2.          *)
(***************************************************************************)
DuoNum1(a) == IF TruthyInt(a.num) THEN Some(IntTrunc(a.num[1], 2)) ELSE a.num

\* A get_duos that filters the second source against the whole target.
DuoNum2Unsplit(a) == a.num

DuoNum2(a) ==
    IF TruthyInt(a.num) THEN Some(a.num[1] - DuoNum1(a)[1]) ELSE a.num

\* A get_duos that only looks at the first set before combining.
DuoNonEmptyFirstOnly(w1, w2) == w1 # {}

DuoNonEmpty(w1, w2) == w1 # {} /\ w2 # {}

\* A get_duos that puts the chosen word behind the word of words2.
DuoSetSwapped(t1, t2, vs) == {t2[j] \o t1[vs[j] + 1] : j \in DOMAIN t2}

DuoSet(t1, t2, vs) == {t1[vs[j] + 1] \o t2[j] : j \in DOMAIN t2}

\* The value of a name that holds None or a set.
NoneValue == [isNone |-> TRUE, set |-> {}]
SetValue(S) == [isNone |-> FALSE, set |-> S]

\* bool(words) in main.
TruthyWords(w) == ~w.isNone /\ w.set # {}

(***************************************************************************)
(* word2l33t(word) under ratio r with the sample drawn from vs.  The loop  *)
(* stops with a KeyError at the first sampled index whose upper-cased      *)
(* character is no key of g_l33t.                                          *)
(***************************************************************************)
\* A word2l33t that truncates where it should round: int(length * ratio).
L33tPercentTruncated(word, r) == (Len(word) * r[1]) \div r[2]

L33tPercent(word, r) == Round(Len(word), r)

\* A word2l33t that leaves a character with no glyph as it is.
RECURSIVE L33tLoopGuarded(_, _)
L33tLoopGuarded(new_word, sample) ==
    IF sample = <<>> THEN [failed |-> FALSE, new_word |-> new_word]
    ELSE LET i == sample[1]
             key == UpperChar(new_word[i][1])
         IN  L33tLoopGuarded(IF key \in DOMAIN g_l33t
                             THEN [new_word EXCEPT ![i] = g_l33t[key]]
                             ELSE new_word,
                             Tail(sample))

RECURSIVE L33tLoop(_, _)
L33tLoop(new_word, sample) ==
    IF sample = <<>> THEN [failed |-> FALSE, new_word |-> new_word]
    ELSE LET i == sample[1]
             key == UpperChar(new_word[i][1])
         IN  IF key \notin DOMAIN g_l33t
             THEN [failed |-> TRUE, new_word |-> new_word]
             ELSE L33tLoop([new_word EXCEPT ![i] = g_l33t[key]], Tail(sample))

Word2l33t(word, r, vs) ==
    LET sample == Sample(Len(word), vs)
        res == L33tLoop([i \in DOMAIN word |-> <<word[i]>>], sample)
    IN  [called |-> TRUE, word |-> word, ratio |-> r, sample |-> sample,
         failed |-> res.failed, new_word |-> res.new_word,
         out |-> IF res.failed THEN <<>> ELSE Join(res.new_word)]

NoLeet == [called |-> FALSE, word |-> <<>>, ratio |-> <<0, 1>>,
           sample |-> <<>>, failed |-> FALSE, new_word |-> <<>>,
           out |-> <<>>]

(***************************************************************************)
(* The inputs the model enumerates.                                        *)
(***************************************************************************)
words_file == "words.txt"
adjs_file == "adjectives.txt"
verb_file == "verbs.txt"
noun_file == "nouns.txt"
FileNames == {words_file, adjs_file, verb_file, noun_file}

\* The lines word lists are cut from (without their line terminator):
\* 'a', 'Ab ', 'b', 'a-b', 'ab', 'b1', the dotless i, '', 'aa', '.a'.
LinePool ==
    << <<97>>, <<65, 98, 32>>, <<98>>, <<97, 45, 98>>, <<97, 98>>,
       <<98, 49>>, <<305>>, <<>>, <<97, 97>>, <<46, 97>> >>

\* k lines of the pool from its o-th on, wrapping around.
Window(o, k) == [i \in 1..k |-> LinePool[((o + i - 2) % Len(LinePool)) + 1]]

Absent == [exists |-> FALSE, lines |-> <<>>]
Holding(lines) == [exists |-> TRUE, lines |-> lines]

\* Only words.txt present, with the given content.
OnlyWords(f) == [n \in FileNames |-> IF n = words_file THEN f ELSE Absent]

\* The three lists of the duo modes; words.txt is never opened there.
DuoFiles(adjs, verbs, nouns) ==
    [n \in FileNames |-> IF n = adjs_file THEN adjs
                         ELSE IF n = verb_file THEN verbs
                         ELSE IF n = noun_file THEN nouns
                         ELSE Absent]

\* No file; no line; 'aa', '.a', 'a'; 'Ab ', 'b'.
DuoLists ==
    {Absent, Holding(<<>>), Holding(Window(9, 3)), Holding(Window(2, 2))}

Namespace(num, mm, l33t, seed, first, flags) ==
    [num |-> num, min |-> mm[1], max |-> mm[2], l33t |-> l33t, seed |-> seed,
     first |-> first, adj_noun |-> flags[1], verb_noun |-> flags[2],
     noun_noun |-> flags[3]]

NoFlags == <<FALSE, FALSE, FALSE>>
DuoFlags ==
    {<<TRUE, FALSE, FALSE>>, <<FALSE, TRUE, FALSE>>, <<FALSE, FALSE, TRUE>>,
     <<TRUE, FALSE, TRUE>>}

Nums == {None, Some(-1), Some(0), Some(96), Some(97), Some(194), Some(195)}
AcceptedNums == {None, Some(0), Some(97), Some(194), Some(195)}
MinMaxes == {<<1, 1>>, <<1, 3>>, <<2, 3>>, <<0, 3>>, <<3, 2>>}
AcceptedMinMaxes == {<<1, 1>>, <<1, 3>>, <<2, 3>>}
Ratios == {<<0, 1>>, <<1, 4>>, <<1, 2>>, <<3, 4>>, <<1, 1>>}
BadRatios == {<<5, 4>>, <<-1, 4>>}
\* None, '', 'a', 'A', '.'
Firsts == {None, Some(<<>>), Some(<<97>>), Some(<<65>>), Some(<<46>>)}

\* Every combination of the checked options, over a two-line words.txt.
ArgsFamily ==
    /\ \E num \in Nums, mm \in MinMaxes, r \in {<<0, 1>>, <<1, 1>>} \cup BadRatios :
          args = Namespace(num, mm, r, None, None, NoFlags)
    /\ files = OnlyWords(Holding(Window(1, 2)))

\* Single-word mode: every accepted filter over word lists of every length.
FilterFamily ==
    /\ \E num \in AcceptedNums, mm \in AcceptedMinMaxes, first \in Firsts :
          args = Namespace(num, mm, <<0, 1>>, None, first, NoFlags)
    /\ \E f \in {Absent} \cup {Holding(Window(1, k)) : k \in 0..MaxLines} :
          files = OnlyWords(f)

\* The duo modes over every pairing of the small lists.
DuoFamily ==
    /\ \E num \in {None, Some(97), Some(194), Some(195)},
          first \in {None, Some(<<97>>)}, flags \in DuoFlags :
          args = Namespace(num, <<1, 3>>, <<0, 1>>, None, first, flags)
    /\ \E adjs \in DuoLists, verbs \in DuoLists, nouns \in DuoLists :
          /\ files = DuoFiles(adjs, verbs, nouns)
          /\ ~args.adj_noun => adjs = Absent
          /\ (args.adj_noun \/ ~args.verb_noun) => verbs = Absent

\* Printing with and without l33t, seeded and not.
PrintFamily ==
    /\ \E r \in {<<0, 1>>, <<1, 2>>, <<1, 1>>}, seed \in {None, Some(1)} :
          args = Namespace(None, <<1, 3>>, r, seed, None, NoFlags)
    /\ \E k \in 2..MaxLines : files = OnlyWords(Holding(Window(1, k)))

(***************************************************************************)
(* The state a fresh process starts in.                                    *)
(***************************************************************************)
\* What an invocation left behind: what it printed and how it ended.
NoRun == [out |-> <<>>, end |-> ""]

Fresh ==
    /\ words1 = {}
    /\ words2 = {}
    /\ words = SetValue({})
    /\ todo = {}
    /\ printed = <<>>
    /\ sorry = 0
    /\ pauses = <<>>
    /\ opened = <<>>
    /\ err = ""
    /\ rng = NewRng
    /\ run = 1
    /\ prev = NoRun

Init ==
    /\ Fresh
    /\ pc = "start"
    /\ leet = NoLeet
    /\ (ArgsFamily \/ FilterFamily \/ DuoFamily \/ PrintFamily)

(***************************************************************************)
(* main, line 101 and 102: get_args() and random.seed(args.seed).          *)
(***************************************************************************)
GetArgs ==
    /\ pc = "start"
    /\ LET e == GetArgsError(args)
       IN  IF e # ""
           THEN /\ pc' = "usage_error"
                /\ err' = e
                /\ rng' = rng
           ELSE /\ pc' = "select"
                /\ err' = ""
                /\ rng' = RandomSeed(rng, args.seed)
    /\ UNCHANGED <<args, files, words1, words2, words, todo, printed, sorry,
                   pauses, opened, leet, run, prev>>

(***************************************************************************)
(* main, line 115 and 116: words = get_words(words_file, args.num, args).  *)
(* get_handle ends the process when the file is missing.                   *)
(***************************************************************************)
IsDuo(a) == a.adj_noun \/ a.verb_noun \/ a.noun_noun

MainSingle ==
    /\ pc = "select"
    /\ ~IsDuo(args)
    /\ opened' = Append(opened, words_file)
    /\ IF ~files[words_file].exists
       THEN /\ pc' = "missing_file"
            /\ err' = words_file
            /\ UNCHANGED <<words, todo>>
       ELSE LET found == GetWords(files[words_file].lines, args.num, args)
            IN  /\ pc' = "print"
                /\ words' = SetValue(found)
                /\ todo' = found
                /\ err' = err
    /\ UNCHANGED <<args, files, rng, words1, words2, printed, sorry, pauses,
                   leet, run, prev>>

(***************************************************************************)
(* main, lines 109 to 114: words = get_duos(first, noun_file, args).       *)
(***************************************************************************)
DuoFirst(a) ==
    IF a.adj_noun THEN adjs_file
    ELSE IF a.verb_noun THEN verb_file
    ELSE noun_file

\* What get_duos can return from the two filtered sets in generator state g,
\* with the generator it leaves behind.
GetDuosOutcomes(w1, w2, g) ==
    IF DuoNonEmpty(w1, w2)
    THEN LET ns == [j \in 1..Cardinality(w2) |-> Cardinality(w1)]
         IN  {[ret |-> SetValue(DuoSet(t1, t2, vs)),
               rng |-> AdvanceAll(g, ns, vs)] :
                 <<t1, t2, vs>> \in
                     Perms(w1) \X Perms(w2) \X RandBelowSeqs(g, ns)}
    ELSE {[ret |-> NoneValue, rng |-> g]}

MainDuo ==
    /\ pc = "select"
    /\ IsDuo(args)
    /\ LET first == DuoFirst(args)
           second == noun_file
       IN  IF ~files[first].exists
           THEN /\ opened' = Append(opened, first)
                /\ pc' = "missing_file"
                /\ err' = first
                /\ UNCHANGED <<rng, words1, words2, words, todo>>
           ELSE IF ~files[second].exists
           THEN /\ opened' = opened \o <<first, second>>
                /\ pc' = "missing_file"
                /\ err' = second
                /\ words1' = GetWords(files[first].lines, DuoNum1(args), args)
                /\ UNCHANGED <<rng, words2, words, todo>>
           ELSE LET w1 == GetWords(files[first].lines, DuoNum1(args), args)
                    w2 == GetWords(files[second].lines, DuoNum2(args), args)
                IN  /\ opened' = opened \o <<first, second>>
                    /\ pc' = "print"
                    /\ err' = err
                    /\ words1' = w1
                    /\ words2' = w2
                    /\ \E o \in GetDuosOutcomes(w1, w2, rng) :
                          /\ words' = o.ret
                          /\ todo' = o.ret.set
                          /\ rng' = o.rng
    /\ UNCHANGED <<args, files, printed, sorry, pauses, leet, run, prev>>

(***************************************************************************)
(* word2l33t(word) as a call: it parses the command line again (the same   *)
(* namespace, or the same parser.error), draws its sample and substitutes. *)
(* The outcomes are the records of the call with the generator each        *)
(* leaves behind.                                                          *)
(***************************************************************************)
LeetOutcomes(word, a, g) ==
    LET ns == SampleSizes(Len(word), L33tPercent(word, a.l33t))
    IN  {[leet |-> Word2l33t(word, a.l33t, vs), rng |-> AdvanceAll(g, ns, vs)] :
            vs \in RandBelowSeqs(g, ns)}

(***************************************************************************)
(* main, lines 120 to 126: one turn of the for loop.  The set yields its   *)
(* elements in an order the program does not control.                      *)
(***************************************************************************)
EndsRow(i) == i % 5 = 0

PrintWord ==
    /\ pc = "print"
    /\ TruthyWords(words)
    /\ \E word \in todo :
          LET i == Len(printed) + 1
          IN  /\ todo' = todo \ {word}
              /\ IF ~TruthyRatio(args.l33t)
                 THEN /\ printed' = Append(printed,
                                           [text |-> word, eol |-> EndsRow(i)])
                      /\ pc' = IF EndsRow(i) THEN "input" ELSE "print"
                      /\ UNCHANGED <<rng, leet, err>>
                 ELSE \E o \in LeetOutcomes(word, args, rng) :
                         /\ rng' = o.rng
                         /\ leet' = o.leet
                         /\ IF o.leet.failed
                            THEN /\ pc' = "crashed"
                                 /\ err' = "KeyError"
                                 /\ printed' = printed
                            ELSE /\ printed' =
                                      Append(printed, [text |-> o.leet.out,
                                                       eol |-> EndsRow(i)])
                                 /\ pc' = IF EndsRow(i) THEN "input"
                                          ELSE "print"
                                 /\ err' = err
    /\ UNCHANGED <<args, files, words1, words2, words, sorry, pauses, opened,
                   run, prev>>

(***************************************************************************)
(* main, line 126: input() returns a line, or raises EOFError when the     *)
(* standard input has ended.                                               *)
(***************************************************************************)
Input ==
    /\ pc = "input"
    /\ \E got \in {"line", "eof"} :
          IF got = "line"
          THEN /\ pc' = "print"
               /\ pauses' = Append(pauses, Len(printed))
               /\ err' = err
          ELSE /\ pc' = "crashed"
               /\ err' = "EOFError"
               /\ pauses' = pauses
    /\ UNCHANGED <<args, files, rng, words1, words2, words, todo, printed,
                   sorry, opened, leet, run, prev>>

(***************************************************************************)
(* main, lines 127 to 129: the message for an empty (or absent) result.    *)
(***************************************************************************)
PrintSorry ==
    /\ pc = "print"
    /\ ~TruthyWords(words)
    /\ sorry' = sorry + 1
    /\ pc' = "done"
    /\ UNCHANGED <<args, files, rng, words1, words2, words, todo, printed,
                   pauses, opened, leet, err, run, prev>>

(***************************************************************************)
(* main returns once the for loop has yielded every element.               *)
(***************************************************************************)
Finish ==
    /\ pc = "print"
    /\ TruthyWords(words)
    /\ todo = {}
    /\ pc' = "done"
    /\ UNCHANGED <<args, files, rng, words1, words2, words, todo, printed,
                   sorry, pauses, opened, leet, err, run, prev>>

Next == GetArgs \/ MainSingle \/ MainDuo \/ PrintWord \/ Input \/ PrintSorry
        \/ Finish

Spec == Init /\ [][Next]_vars

(***************************************************************************)
(* word2l33t called on its own: any word over a few characters ('a', 'b',  *)
(* 'Z', '-', '1', the dotless i) under any ratio get_args accepts.         *)
(***************************************************************************)
LeetChars == {97, 98, 90, 45, 49, 305}

RECURSIVE WordsUpTo(_)
WordsUpTo(n) ==
    IF n = 0 THEN {<<>>}
    ELSE LET shorter == WordsUpTo(n - 1)
         IN  shorter \cup {Append(w, c) : w \in shorter, c \in LeetChars}

InitLeet ==
    /\ Fresh
    /\ pc = "l33t"
    /\ \E r \in Ratios \cup BadRatios :
          args = Namespace(None, <<1, 3>>, r, None, None, NoFlags)
    /\ files = OnlyWords(Holding(<<>>))
    /\ \E w \in WordsUpTo(MaxWordLen) : leet = [NoLeet EXCEPT !.word = w]

LeetCall ==
    /\ pc = "l33t"
    /\ LET e == GetArgsError(args)
       IN  IF e # ""
           THEN /\ pc' = "usage_error"
                /\ err' = e
                /\ UNCHANGED <<rng, leet>>
           ELSE \E o \in LeetOutcomes(leet.word, args, rng) :
                   /\ rng' = o.rng
                   /\ leet' = o.leet
                   /\ pc' = IF o.leet.failed THEN "crashed" ELSE "l33t_done"
                   /\ err' = IF o.leet.failed THEN "KeyError" ELSE err
    /\ UNCHANGED <<args, files, words1, words2, words, todo, printed, sorry,
                   pauses, opened, run, prev>>

NextLeet == LeetCall

SpecLeet == InitLeet /\ [][NextLeet]_vars

(***************************************************************************)
(* The program run twice on the same command line and the same files.  A   *)
(* second process starts from scratch; what it shares with the first is    *)
(* the stream its seed determines.                                         *)
(***************************************************************************)
Ended == pc \in {"done", "crashed", "usage_error", "missing_file"}

Rerun ==
    /\ Ended
    /\ run = 1
    /\ run' = 2
    /\ prev' = [out |-> printed, end |-> pc]
    /\ pc' = "start"
    /\ words1' = {}
    /\ words2' = {}
    /\ words' = SetValue({})
    /\ todo' = {}
    /\ printed' = <<>>
    /\ sorry' = 0
    /\ pauses' = <<>>
    /\ opened' = <<>>
    /\ leet' = NoLeet
    /\ err' = ""
    /\ UNCHANGED <<args, files, rng>>

\* Seeded runs in every mode over short lists, and over a list long enough
\* to fill a row.
InitTwoRuns ==
    /\ Fresh
    /\ pc = "start"
    /\ leet = NoLeet
    /\ \/ /\ \E r \in {<<0, 1>>, <<1, 2>>, <<1, 1>>, <<5, 4>>} :
                args = Namespace(None, <<1, 3>>, r, Some(1), None, NoFlags)
          /\ \E f \in {Absent, Holding(<<>>), Holding(Window(1, 3)),
                       Holding(Window(3, 2))} :
                files = OnlyWords(f)
       \/ /\ \E num \in {None, Some(195)} :
                args = Namespace(num, <<1, 3>>, <<0, 1>>, Some(1), None,
                                 <<TRUE, FALSE, FALSE>>)
          /\ \E adjs \in DuoLists, nouns \in DuoLists :
                files = DuoFiles(adjs, Absent, nouns)
       \/ /\ args = Namespace(None, <<1, 3>>, <<0, 1>>, Some(1), None, NoFlags)
          /\ files = OnlyWords(Holding(Window(1, 6)))

NextTwoRuns == Next \/ Rerun

SpecTwoRuns == InitTwoRuns /\ [][NextTwoRuns]_vars

(***************************************************************************)
(* Properties.                                                             *)
(***************************************************************************)
\* main has its words: get_words or get_duos has returned.
Loaded == pc \in {"print", "input", "done", "crashed"}

\* The weight of a word: the sum of the code points of its ASCII letters
\* and digits.
Weight(w) == SumSeq(SelectSeq(w, IsAsciiAlnum))

\* w starts with the string f, compared without regard to case.
StartsWithNoCase(w, f) ==
    /\ Len(f) <= Len(w)
    /\ \A i \in DOMAIN f : LowerChar(w[i]) = LowerChar(f[i])

\* The predicate the Word Filter is said to apply to a normalized line.  A
\* target of 0 is read as no target, the reading under which the statement
\* asks least.
Selected(w, target, a) ==
    /\ a.first = None \/ StartsWithNoCase(w, a.first[1])
    /\ IF target # None /\ target[1] # 0 THEN Weight(w) = target[1]
       ELSE a.min <= Len(w) /\ Len(w) <= a.max

SelectedWords(lines, target, a) ==
    {w \in {CleanWord(lines[i]) : i \in DOMAIN lines} : Selected(w, target, a)}

\* C1: for every accepted configuration and every word list, get_words
\* returns exactly the normalized lines that start with firstChar (when one
\* is given) and have the target weight (when a target is given) or else a
\* length within [minLength, maxLength]: none missing, none extra.
C1_GetWordsExact ==
    Loaded =>
        IF IsDuo(args)
        THEN /\ words1 = SelectedWords(files[DuoFirst(args)].lines,
                                       DuoNum1(args), args)
             /\ words2 = SelectedWords(files[noun_file].lines,
                                       DuoNum2(args), args)
        ELSE words.set = SelectedWords(files[words_file].lines, args.num, args)

\* C3: an integer below 97 given to --num ends get_args in a usage error,
\* before any word list is opened or filtered: such a configuration never
\* reaches get_words or get_duos.
C3_NumBelow97Rejected ==
    (args.num # None /\ args.num[1] < 97) =>
        /\ pc \in {"start", "usage_error"}
        /\ opened = <<>>
        /\ words = SetValue({})

\* get_duos has returned to main.
DuoDone == IsDuo(args) /\ Loaded

\* C2: when both filtered sets are non-empty, every element of get_duos'
\* result is w1 + w2 for some w1 of words1 and w2 of words2, every w2 of
\* words2 is the second part of an element, and the result has at most
\* |words2| elements, fewer only when two concatenations coincide.
C2_DuosAreConcatenations ==
    (DuoDone /\ words1 # {} /\ words2 # {}) =>
        /\ ~words.isNone
        /\ \A e \in words.set :
              \E w1 \in words1, w2 \in words2 : e = w1 \o w2
        /\ \A w2 \in words2 : \E w1 \in words1 : (w1 \o w2) \in words.set
        /\ Cardinality(words.set) <= Cardinality(words2)
        /\ Cardinality(words.set) < Cardinality(words2) =>
              \E w1 \in words1, v1 \in words1, w2 \in words2, v2 \in words2 :
                  /\ w2 # v2
                  /\ w1 \o w2 = v1 \o v2
                  /\ (w1 \o w2) \in words.set

\* C2's case: two concatenations coincided, so the result is smaller than
\* words2.
C2_Witness ==
    /\ DuoDone
    /\ words1 # {}
    /\ ~words.isNone
    /\ words.set # {}
    /\ Cardinality(words.set) < Cardinality(words2)

\* C10: in a duo mode with a weight target T >= 97 the two halves add up to
\* T, the first is floor(T/2), each source is filtered to its half, and
\* every word get_duos returns weighs exactly T (word2num of the
\* concatenation is str(T)).
C10_DuoWeightIsTarget ==
    (DuoDone /\ args.num # None /\ args.num[1] >= 97) =>
        LET T == args.num[1]
            half1 == DuoNum1(args)[1]
            half2 == DuoNum2(args)[1]
        IN  /\ half1 + half2 = T
            /\ 2 * half1 <= T /\ T < 2 * (half1 + 1)
            /\ \A w \in words1 : Weight(w) = half1
            /\ \A w \in words2 : Weight(w) = half2
            /\ \A e \in words.set : Weight(e) = T /\ word2num(e) = Str(T)

\* C10's case: an odd target, and get_duos returned at least one word.
C10_Witness ==
    /\ DuoDone
    /\ args.num = Some(195)
    /\ ~words.isNone
    /\ words.set # {}

\* Either filtered set of a duo mode came back empty.
DuoEmpty == DuoDone /\ (words1 = {} \/ words2 = {})

\* C6: in a duo mode, when either filtered set is empty, get_duos returns
\* None without raising, and main prints the 'no words were found' message
\* once, prints no word, never waits for input, and ends normally.
C6_EmptyDuoPrintsSorry ==
    /\ [](DuoEmpty =>
            /\ words.isNone
            /\ err = ""
            /\ printed = <<>>
            /\ pauses = <<>>
            /\ pc \in {"print", "done"}
            /\ sorry = (IF pc = "done" THEN 1 ELSE 0)
            /\ pc = "print" => ENABLED PrintSorry)
    /\ [][(DuoEmpty /\ pc = "print") =>
              (pc' = "done" /\ sorry' = 1 /\ printed' = <<>>)]_vars

\* C6's case: the first set is empty, the second is not, and main is done.
C6_Witness ==
    /\ DuoEmpty
    /\ words1 = {}
    /\ words2 # {}
    /\ pc = "done"
    /\ sorry = 1

\* The process has failed.
Failed == pc \in {"usage_error", "missing_file", "crashed"}

\* C5: an invocation either succeeds in full (every word of the result is
\* printed, or the one message for an empty result) or fails before any
\* word has been printed; none prints a part of the result and then fails.
C5_NoPartialFailure ==
    /\ Failed => printed = <<>>
    /\ pc = "done" =>
          \/ sorry = 1 /\ printed = <<>>
          \/ sorry = 0 /\ Len(printed) = Cardinality(words.set)

\* C8: for a non-empty result of n words main prints one entry per word,
\* waits for a line right after the i-th entry exactly when i is a multiple
\* of 5, so floor(n/5) times in all, and, every wait being answered, ends
\* with all n printed.
C8_PagedPrinting ==
    (Loaded /\ TruthyWords(words)) =>
        LET n == Cardinality(words.set)
            i == Len(printed)
        IN  /\ i + Cardinality(todo) = n \/ pc = "crashed"
            /\ \A k \in DOMAIN pauses : pauses[k] = 5 * k
            /\ \A k \in DOMAIN printed : printed[k].eol = (k % 5 = 0)
            /\ pc # "crashed" =>
                  (pc = "input" <=>
                      (i > 0 /\ i % 5 = 0 /\ Len(pauses) < i \div 5))
            /\ pc = "print" => Len(pauses) = i \div 5
            /\ pc = "done" => i = n /\ Len(pauses) = n \div 5
            /\ pc = "crashed" => err = "EOFError"

\* C4: two runs with the same --seed, the same other arguments and the same
\* files print the same words in the same order.
C4_SameSeedSameOutput ==
    (run = 2 /\ args.seed # None /\ prev.end = "done" /\ pc = "done") =>
        printed = prev.out

IsAsciiLetter(c) == IsAsciiUpper(c) \/ IsAsciiLower(c)

\* The uppercase form of an ASCII letter.
AsciiUpperOf(c) == IF IsAsciiLower(c) THEN c - 32 ELSE c

AbsVal(x) == IF x < 0 THEN -x ELSE x

\* k is len * p / q rounded to the nearest integer, a tie to the even one.
IsRounded(k, len, r) ==
    LET d == AbsVal(2 * (k * r[2] - len * r[1]))
    IN  d < r[2] \/ (d = r[2] /\ k % 2 = 0)

\* C7: on a word of ASCII letters only and a ratio r in [0, 1], word2l33t
\* replaces exactly k = round(len(word) * r) pairwise distinct positions,
\* each by the glyph of the uppercase form of its character, and leaves
\* every other position as it was, in order; r = 1 replaces every character
\* and r = 0 returns the word unchanged.
C7_LeetReplacesRoundedShare ==
    (/\ leet.called
     /\ \A i \in DOMAIN leet.word : IsAsciiLetter(leet.word[i])
     /\ 0 <= leet.ratio[1] /\ leet.ratio[1] <= leet.ratio[2]) =>
        LET n == Len(leet.word)
            chosen == Range(leet.sample)
        IN  /\ ~leet.failed
            /\ IsRounded(Len(leet.sample), n, leet.ratio)
            /\ Cardinality(chosen) = Len(leet.sample)
            /\ chosen \subseteq 1..n
            /\ Len(leet.new_word) = n
            /\ \A i \in 1..n :
                  leet.new_word[i] =
                      IF i \in chosen THEN g_l33t[AsciiUpperOf(leet.word[i])]
                      ELSE <<leet.word[i]>>
            /\ leet.out = Join(leet.new_word)
            /\ leet.ratio[1] = leet.ratio[2] => chosen = 1..n
            /\ leet.ratio[1] = 0 => leet.out = leet.word

\* C7's case: three letters under ratio 1/2, where 1.5 rounds to 2.
C7_Witness ==
    /\ leet.called
    /\ Len(leet.word) = 3
    /\ \A i \in DOMAIN leet.word : IsAsciiLetter(leet.word[i])
    /\ leet.ratio = <<1, 2>>
    /\ Len(leet.sample) = 2
    /\ Len(leet.out) > 3

\* An ASCII character that is no letter: a digit, a hyphen, an apostrophe...
IsAsciiNonLetter(c) == c < 128 /\ ~IsAsciiLetter(c)

\* C9 as stated: whenever a sampled position holds a character that is not
\* an ASCII letter the call ends in a lookup failure, and under ratio 1.0
\* every word with such a character fails.
C9_NonLetterAlwaysFails ==
    leet.called =>
        /\ (\E i \in Range(leet.sample) : ~IsAsciiLetter(leet.word[i])) =>
              leet.failed
        /\ (/\ leet.ratio[1] = leet.ratio[2]
            /\ \E i \in DOMAIN leet.word : ~IsAsciiLetter(leet.word[i])) =>
              leet.failed

\* C9 amended: the k positions are sampled from all indices of the word;
\* the call ends in a lookup failure, returning no word, exactly when a
\* sampled position holds a character whose uppercase form (str.upper) is
\* not one of A to Z.  That is so for every ASCII character that is not a
\* letter, so under ratio 1.0 every word with such a character fails; it is
\* not so for the dotless i or the long s, whose uppercase forms are I and S.
C9_NonTableCharFails ==
    leet.called =>
        LET n == Len(leet.word)
            chosen == Range(leet.sample)
        IN  /\ chosen \subseteq 1..n
            /\ Len(leet.sample) = Round(n, leet.ratio)
            /\ leet.failed <=>
                  \E i \in chosen : ~IsAsciiUpper(UpperChar(leet.word[i]))
            /\ (\E i \in chosen : IsAsciiNonLetter(leet.word[i])) =>
                  leet.failed
            /\ leet.failed => (leet.out = <<>> /\ pc = "crashed"
                               /\ err = "KeyError")
            /\ (/\ leet.ratio[1] = leet.ratio[2]
                /\ \E i \in 1..n : IsAsciiNonLetter(leet.word[i])) =>
                  leet.failed

\* C9's case: under ratio 1/2 the sample hit the hyphen of a word that also
\* has a letter, and the call failed.
C9_Witness ==
    /\ leet.called
    /\ leet.failed
    /\ leet.ratio = <<1, 2>>
    /\ \E i \in Range(leet.sample) : leet.word[i] = 45
    /\ \E i \in DOMAIN leet.word : IsAsciiLetter(leet.word[i])

=============================================================================
